---- MODULE Spec2Model ----
(***************************************************************************)
(* k8s-image-pull-metrics: the event handler of src/main.go.               *)
(*                                                                         *)
(* main() creates three OpenTelemetry instruments and registers            *)
(* handleAddFunc with an informer on Events.  handleAddFunc filters an     *)
(* event, scans its message with fmt.Sscanf, converts the captured tokens  *)
(* with time.ParseDuration and strconv.ParseInt, builds the attribute set  *)
(* and records one observation in each instrument.                         *)
(*                                                                         *)
(* Go strings are TLA+ strings; a character is a string of length one.     *)
(* Go's library functions called by the handler are modelled by what they  *)
(* do on the characters of their argument.                                 *)
(***************************************************************************)
EXTENDS Integers, Sequences, FiniteSets, Bags, TLC

VARIABLES
    started,                        \* main() has set the handles and started the informer
    process,                        \* "running" or "panicked"
    obj,                            \* the payload of the latest handleAddFunc call
    log,                            \* the lines that call logged (log.Println)
    recorded,                       \* the Record calls that call made, in order
    imageSizeGauge,                 \* bag of observations recorded in k8s.image.size
    durationPullHistogram,          \* bag of observations in k8s.image.pull.duration
    durationPullWaitOnlyHistogram,  \* bag of observations in k8s.image.pull_wait_only.duration
    delivered,                      \* history: bag of the payloads delivered so far
    calls                           \* in-flight handleAddFunc calls, by goroutine

vars == <<started, process, obj, log, recorded, imageSizeGauge, durationPullHistogram,
          durationPullWaitOnlyHistogram, delivered, calls>>

----------------------------------------------------------------------------
(* Bounds of the model.                                                    *)

\* Number of payloads the informer delivers in one behaviour of Spec and of
\* SpecConc.
MaxEvents == 3

\* Number of payloads the informer delivers in one behaviour of SpecScan,
\* which draws them from the large set ScanPayloads.
MaxScans == 1

\* Number of goroutines that may run handleAddFunc at the same time (SpecConc).
NumGoroutines == 2

----------------------------------------------------------------------------
(* Characters and strings.                                                 *)

\* The element of a set of one element.  A value computed from a bound
\* variable is computed once however often it is used.
Only(S) == CHOOSE x \in S : TRUE

At(s, i) == SubSeq(s, i, i)

\* s[i:] of Go, for a 1-based i.
From(s, i) == SubSeq(s, i, Len(s))

isDigit(c) == c \in {"0", "1", "2", "3", "4", "5", "6", "7", "8", "9"}

DigitVal(c) ==
    CASE c = "0" -> 0 [] c = "1" -> 1 [] c = "2" -> 2 [] c = "3" -> 3
      [] c = "4" -> 4 [] c = "5" -> 5 [] c = "6" -> 6 [] c = "7" -> 7
      [] c = "8" -> 8 [] c = "9" -> 9

\* fmt's isSpace, on the white space the modelled inputs use.
isSpace(c) == c \in {" ", "\t", "\n"}

----------------------------------------------------------------------------
(* fmt.Sscanf(msg, format, &imageName, &durationPullStr,                   *)
(*            &durationWaitStr, &imageSize)                                *)

\* The format without its final period.
formatNoPeriod ==
    "Successfully pulled image %q in %s (%s including waiting). Image size: %s bytes"

format == "Successfully pulled image %q in %s (%s including waiting). Image size: %s bytes."

\* ss.SkipSpace with nlIsSpace = false: the position of the first
\* character that is no space; a newline is an error.
RECURSIVE SkipSpace(_, _)
SkipSpace(in, p) ==
    IF p > Len(in) THEN [pos |-> p, err |-> ""]
    ELSE IF At(in, p) = "\n" THEN [pos |-> p + 1, err |-> "unexpected newline"]
    ELSE IF ~isSpace(At(in, p)) THEN [pos |-> p, err |-> ""]
    ELSE SkipSpace(in, p + 1)

\* The end of the run of spaces (no newline) of the input that starts at p.
RECURSIVE SpaceRun(_, _)
SpaceRun(in, p) ==
    IF p <= Len(in) /\ isSpace(At(in, p)) /\ At(in, p) # "\n"
    THEN SpaceRun(in, p + 1) ELSE p

\* The end of the run of spaces of the format that starts at i (the format
\* holds no newline).
RECURSIVE FormatSpaceRun(_, _)
FormatSpaceRun(f, i) ==
    IF i <= Len(f) /\ isSpace(At(f, i)) THEN FormatSpaceRun(f, i + 1) ELSE i

\* ss.advance: matches the format's literals and spaces from i to the
\* next verb or the end of the format.  w is the number of format
\* characters matched, or -1 on a literal that differs.
RECURSIVE advance(_, _, _, _, _)
advance(in, p, f, i0, i) ==
    IF i > Len(f) THEN [pos |-> p, w |-> i - i0, err |-> ""]
    ELSE IF isSpace(At(f, i)) THEN
        \* a run of spaces of the format: one or more spaces, or the end of input
        IF p <= Len(in) /\ At(in, p) = "\n"
        THEN [pos |-> p, w |-> i - i0, err |-> "newline in input does not match format"]
        ELSE IF p <= Len(in) /\ ~isSpace(At(in, p))
        THEN [pos |-> p, w |-> i - i0, err |-> "expected space in input to match format"]
        ELSE advance(in, SpaceRun(in, p), f, i0, FormatSpaceRun(f, i))
    ELSE IF At(f, i) = "%" THEN [pos |-> p, w |-> i - i0, err |-> ""]
    ELSE IF p > Len(in) THEN [pos |-> p, w |-> i - i0, err |-> "unexpected EOF"]
    ELSE IF At(in, p) # At(f, i) THEN [pos |-> p, w |-> -1, err |-> ""]
    ELSE advance(in, p + 1, f, i0, i + 1)

\* Reads to the closing double quote, a backslash protecting the character
\* after it: ss.quotedString, case '"'.  buf is the text between the
\* quotes, escapes not yet interpreted.
RECURSIVE interpretedQuoted(_, _, _)
interpretedQuoted(in, p, buf) ==
    IF p > Len(in) THEN [str |-> "", pos |-> p, err |-> "unexpected EOF"]
    ELSE IF At(in, p) = "\\" THEN
        IF p + 1 > Len(in) THEN [str |-> "", pos |-> p + 1, err |-> "unexpected EOF"]
        ELSE interpretedQuoted(in, p + 2, buf \o SubSeq(in, p, p + 1))
    ELSE IF At(in, p) = "\"" THEN [str |-> buf, pos |-> p + 1, err |-> ""]
    ELSE interpretedQuoted(in, p + 1, buf \o At(in, p))

\* strconv.Unquote of a double-quoted string with body b: a newline is not
\* allowed, and of the escapes the modelled inputs use \\ \" \n \t are
\* interpreted and \' and an unknown letter are syntax errors.
RECURSIVE Unquote(_, _, _)
Unquote(b, i, out) ==
    IF i > Len(b) THEN [str |-> out, err |-> ""]
    ELSE IF At(b, i) = "\n" THEN [str |-> "", err |-> "invalid syntax"]
    ELSE IF At(b, i) # "\\" THEN Unquote(b, i + 1, out \o At(b, i))
    ELSE IF i + 1 > Len(b) THEN [str |-> "", err |-> "invalid syntax"]
    ELSE IF At(b, i + 1) \in {"\\", "\""} THEN Unquote(b, i + 2, out \o At(b, i + 1))
    ELSE IF At(b, i + 1) = "n" THEN Unquote(b, i + 2, out \o "\n")
    ELSE IF At(b, i + 1) = "t" THEN Unquote(b, i + 2, out \o "\t")
    ELSE [str |-> "", err |-> "invalid syntax"]

\* ss.quotedString: a double-quoted Go string.  (Its back-quoted form is
\* left out: a TLA+ string cannot hold a back quote, so no modelled input
\* has one.)
quotedString(in, p) ==
    IF p > Len(in) THEN [str |-> "", pos |-> p, err |-> "EOF"]
    ELSE IF At(in, p) = "\"" THEN
        LET r == interpretedQuoted(in, p + 1, "") IN
        IF r.err # "" THEN r
        ELSE LET u == Unquote(r.str, 1, "") IN
             [str |-> u.str, pos |-> r.pos, err |-> u.err]
    ELSE [str |-> "", pos |-> p + 1, err |-> "expected quoted string"]

\* ss.token(true, notSpace), after its SkipSpace: the characters up to
\* the next space or the end of the input.
RECURSIVE token(_, _, _)
token(in, p, buf) ==
    IF p > Len(in) \/ isSpace(At(in, p)) THEN [str |-> buf, pos |-> p, err |-> ""]
    ELSE token(in, p + 1, buf \o At(in, p))

\* ss.convertString for the verbs of the format, %q and %s.
convertString(verb, in, p) ==
    LET sk == SkipSpace(in, p) IN
    IF sk.err # "" THEN [str |-> "", pos |-> sk.pos, err |-> sk.err]
    ELSE IF sk.pos > Len(in) THEN [str |-> "", pos |-> sk.pos, err |-> "EOF"]
    ELSE IF verb = "q" THEN quotedString(in, sk.pos)
    ELSE token(in, sk.pos, "")

\* ss.doScanf from format position i and input position p, with the
\* operands a scanned so far.  The format has no width and no %%; its four
\* verbs are the four operands, so "too few operands" cannot occur.
RECURSIVE doScanf(_, _, _, _, _)
doScanf(in, p, f, i, a) ==
    LET done(e) == [n |-> Len(a), err |-> e, a |-> a] IN
    IF i > Len(f) THEN done(IF Len(a) < 4 THEN "too many operands" ELSE "")
    ELSE LET adv == advance(in, p, f, i, i) IN
         IF adv.err # "" THEN done(adv.err)
         ELSE IF adv.w > 0 THEN doScanf(in, adv.pos, f, i + adv.w, a)
         ELSE IF At(f, i) # "%" THEN done("input does not match format")
         ELSE LET c == convertString(At(f, i + 1), in, p) IN
              IF c.err # "" THEN done(c.err)
              ELSE doScanf(in, c.pos, f, i + 2, Append(a, c.str))

\* A scan that also wants the input to end where the format ends.
SscanfWhole(str, f) ==
    Only({IF r.err = "" /\ r.n = 4 /\ At(str, Len(str)) # At(f, Len(f))
          THEN [r EXCEPT !.err = "unexpected trailing input"]
          ELSE r : r \in {doScanf(str, 1, f, 1, <<>>)}})

\* fmt.Sscanf(str, format, ...): the number of operands scanned, the error
\* ("" for nil) and the operands.
Sscanf(str, f) == doScanf(str, 1, f, 1, <<>>)

----------------------------------------------------------------------------
(* time.ParseDuration and time.Duration.                                   *)
(*                                                                         *)
(* A Duration is an int64 count of nanoseconds.  It is kept as the pair    *)
(* ms, ns with value ms * NsPerMs + ns, |ns| < NsPerMs and both of the     *)
(* sign of the value, so that the numbers stay in TLC's range; the         *)
(* modelled tokens stay far below the 2^63 ns at which ParseDuration       *)
(* reports an overflow, and have at most three fraction digits.            *)

\* time.Millisecond, in nanoseconds.
NsPerMs == 1000000

\* The Duration of ms * NsPerMs + ns, for ms and ns of any signs.
Normalize(ms, ns) ==
    Only({LET m == a + (IF b >= 0 THEN b \div NsPerMs ELSE -((-b) \div NsPerMs))
              n == IF b >= 0 THEN b % NsPerMs ELSE -((-b) % NsPerMs)
          IN  IF m > 0 /\ n < 0 THEN [ms |-> m - 1, ns |-> n + NsPerMs]
              ELSE IF m < 0 /\ n > 0 THEN [ms |-> m + 1, ns |-> n - NsPerMs]
              ELSE [ms |-> m, ns |-> n] : a \in {ms}, b \in {ns}})

\* Duration.Milliseconds(): int64(d) / 1e6, which truncates toward zero.
Milliseconds(d) == d.ms

\* d1 - d2, but zero when d1 is the shorter.
DurationSubClamped(d1, d2) ==
    Only({LET r == Normalize(a.ms - b.ms, a.ns - b.ns) IN
          IF r.ms < 0 \/ r.ns < 0 THEN [ms |-> 0, ns |-> 0] ELSE r
          : a \in {d1}, b \in {d2}})

\* d1 - d2 on Durations.
DurationSub(d1, d2) ==
    Only({Normalize(a.ms - b.ms, a.ns - b.ns) : a \in {d1}, b \in {d2}})

\* time's unitMap (its two spellings of "us" with a micro sign are left
\* out: not ASCII).
unitNames == {"ns", "us", "ms", "s", "m", "h"}

unitMap(u) ==
    CASE u = "ns" -> [ms |-> 0, ns |-> 1]
      [] u = "us" -> [ms |-> 0, ns |-> 1000]
      [] u = "ms" -> [ms |-> 1, ns |-> 0]
      [] u = "s" -> [ms |-> 1000, ns |-> 0]
      [] u = "m" -> [ms |-> 60000, ns |-> 0]
      [] u = "h" -> [ms |-> 3600000, ns |-> 0]

\* time.leadingInt: the digits from i on, as a number.
RECURSIVE leadingInt(_, _, _)
leadingInt(s, i, x) ==
    IF i > Len(s) \/ ~isDigit(At(s, i)) THEN [x |-> x, pos |-> i]
    ELSE leadingInt(s, i + 1, x * 10 + DigitVal(At(s, i)))

\* time.leadingFraction: the digits from i on as x / scale.
RECURSIVE leadingFraction(_, _, _, _)
leadingFraction(s, i, x, scale) ==
    IF i > Len(s) \/ ~isDigit(At(s, i)) THEN [x |-> x, scale |-> scale, pos |-> i]
    ELSE leadingFraction(s, i + 1, x * 10 + DigitVal(At(s, i)), scale * 10)

\* The end of the unit that starts at i: the next '.' or digit.
RECURSIVE unitEnd(_, _)
unitEnd(s, i) ==
    IF i > Len(s) \/ At(s, i) = "." \/ isDigit(At(s, i)) THEN i
    ELSE unitEnd(s, i + 1)

\* v * unit + f * unit / scale, the value of one <number><unit> pair; the
\* fraction is truncated to a nanosecond as uint64(float64) does.
pairValue(v, f, scale, unit) ==
    LET whole == Normalize(v * unit.ms, v * unit.ns)
        frac == IF unit.ms > 0
                THEN Normalize((f * unit.ms) \div scale,
                               (((f * unit.ms) % scale) * NsPerMs) \div scale)
                ELSE Normalize(0, (f * unit.ns) \div scale)
    IN  Normalize(whole.ms + frac.ms, whole.ns + frac.ns)

\* The loop of ParseDuration over the <number><unit> pairs from i on, with
\* d the sum so far.  A number is digits, an optional '.' and digits, with
\* a digit on at least one side.
RECURSIVE parsePairs(_, _, _)
parsePairs(s, i, d) ==
    IF i > Len(s) THEN [d |-> d, err |-> ""]
    ELSE IF ~(At(s, i) = "." \/ isDigit(At(s, i)))
    THEN [d |-> d, err |-> "time: invalid duration"]
    ELSE LET li == leadingInt(s, i, 0)
             pre == li.pos # i
             dot == li.pos <= Len(s) /\ At(s, li.pos) = "."
             lf == IF dot THEN leadingFraction(s, li.pos + 1, 0, 1)
                   ELSE [x |-> 0, scale |-> 1, pos |-> li.pos]
             post == dot /\ lf.pos # li.pos + 1
             ue == unitEnd(s, lf.pos)
             u == SubSeq(s, lf.pos, ue - 1)
         IN  IF ~pre /\ ~post THEN [d |-> d, err |-> "time: invalid duration"]
             ELSE IF ue = lf.pos THEN [d |-> d, err |-> "time: missing unit in duration"]
             ELSE IF u \notin unitNames THEN [d |-> d, err |-> "time: unknown unit"]
             ELSE LET v == pairValue(li.x, lf.x, lf.scale, unitMap(u)) IN
                  parsePairs(s, ue, Normalize(d.ms + v.ms, d.ns + v.ns))

\* A ParseDuration that takes no sign.
ParseDurationUnsigned(s) ==
    IF s = "0" THEN [d |-> [ms |-> 0, ns |-> 0], err |-> ""]
    ELSE IF s = "" THEN [d |-> [ms |-> 0, ns |-> 0], err |-> "time: invalid duration"]
    ELSE Only({IF r.err # "" THEN [d |-> [ms |-> 0, ns |-> 0], err |-> r.err] ELSE r
               : r \in {parsePairs(s, 1, [ms |-> 0, ns |-> 0])}})

\* time.ParseDuration(s): an optional sign, then "0" or one or more
\* <number><unit> pairs.
ParseDuration(s) ==
    LET zero == [ms |-> 0, ns |-> 0]
        signed == s # "" /\ At(s, 1) \in {"-", "+"}
        neg == s # "" /\ At(s, 1) = "-"
        rest == IF signed THEN From(s, 2) ELSE s
    IN  IF rest = "0" THEN [d |-> zero, err |-> ""]
        ELSE IF rest = "" THEN [d |-> zero, err |-> "time: invalid duration"]
        ELSE LET r == parsePairs(rest, 1, zero) IN
             IF r.err # "" THEN [d |-> zero, err |-> r.err]
             ELSE IF neg THEN [d |-> [ms |-> -r.d.ms, ns |-> -r.d.ns], err |-> ""]
             ELSE r

----------------------------------------------------------------------------
(* strconv.ParseInt(s, 10, 64).                                            *)

\* 1<<63, the cutoff of ParseInt for 64 bits, in decimal.
cutoff == "9223372036854775808"

allDigits(s) == \A i \in 1..Len(s) : isDigit(At(s, i))

\* s without its leading zeros.
RECURSIVE trimZeros(_)
trimZeros(s) == IF Len(s) > 1 /\ At(s, 1) = "0" THEN trimZeros(From(s, 2)) ELSE s

\* a < b for two digit strings of the same length.
RECURSIVE digitsLess(_, _)
digitsLess(a, b) ==
    IF a = "" THEN FALSE
    ELSE IF At(a, 1) # At(b, 1) THEN DigitVal(At(a, 1)) < DigitVal(At(b, 1))
    ELSE digitsLess(From(a, 2), From(b, 2))

\* The number a digit string s denotes is below that of digit string c.
numLess(s, c) ==
    LET t == trimZeros(s) IN
    Len(t) < Len(c) \/ (Len(t) = Len(c) /\ digitsLess(t, c))

\* strconv.ParseUint in the place of ParseInt: no sign, and 2^63 as limit.
ParseUint(s) ==
    IF s = "" \/ ~allDigits(s) THEN [val |-> 0, err |-> "invalid syntax"]
    ELSE IF ~numLess(s, cutoff) THEN [val |-> 0, err |-> "value out of range"]
    ELSE [val |-> leadingInt(s, 1, 0).x, err |-> ""]

\* strconv.ParseInt(s, 10, 64): an optional sign and decimal digits; a
\* value outside [-2^63, 2^63 - 1] is a range error.
ParseInt(s) ==
    LET signed == s # "" /\ At(s, 1) \in {"-", "+"}
        neg == s # "" /\ At(s, 1) = "-"
        rest == IF signed THEN From(s, 2) ELSE s
    IN  IF rest = "" \/ ~allDigits(rest) THEN [val |-> 0, err |-> "invalid syntax"]
        ELSE IF ~neg /\ ~numLess(rest, cutoff) THEN [val |-> 0, err |-> "value out of range"]
        ELSE IF neg /\ ~numLess(rest, cutoff) /\ trimZeros(rest) # cutoff
        THEN [val |-> 0, err |-> "value out of range"]
        ELSE LET un == leadingInt(rest, 1, 0).x IN
             [val |-> IF neg THEN -un ELSE un, err |-> ""]

----------------------------------------------------------------------------
(* re.FindStringSubmatch(podName), for the pattern of the handler: a       *)
(* greedy group, a '-', any text, a '-', any text, anchored at both ends.  *)

hasDash(s) == \E i \in 1..Len(s) : At(s, i) = "-"

\* The first group were it not greedy: it ends before the first '-' that
\* has a '-' after it.
FindStringSubmatchLazy(podName) ==
    LET ends == {k \in 0..Len(podName) :
                    /\ k + 1 <= Len(podName)
                    /\ At(podName, k + 1) = "-"
                    /\ hasDash(From(podName, k + 2))}
    IN  IF ends = {} THEN <<>>
        ELSE LET k == CHOOSE x \in ends : \A y \in ends : x <= y
             IN  <<podName, SubSeq(podName, 1, k)>>

\* The first group of the match: (.*) is greedy, so it ends before the
\* last '-' that still has a '-' after it.  <<>> is no match (nil).
FindStringSubmatch(podName) ==
    LET ends == {k \in 0..Len(podName) :
                    /\ k + 1 <= Len(podName)
                    /\ At(podName, k + 1) = "-"
                    /\ hasDash(From(podName, k + 2))}
    IN  IF ends = {} THEN <<>>
        ELSE LET k == CHOOSE x \in ends : \A y \in ends : y <= x
             IN  <<podName, SubSeq(podName, 1, k)>>

----------------------------------------------------------------------------
(* handleAddFunc(obj).                                                     *)

\* msg[:n] of Go: a slice past the end of the string panics.
sliceTo(msg, n) ==
    IF n > Len(msg) THEN [panic |-> TRUE, str |-> ""]
    ELSE [panic |-> FALSE, str |-> SubSeq(msg, 1, n)]

\* The prefix test without its length test.
skipPrefixUnguarded(msg) ==
    LET sl == sliceTo(msg, 15) IN
    [panic |-> sl.panic, skip |-> sl.str = "Container image"]

\* len(msg) >= 15 && msg[:15] == "Container image": && evaluates the slice
\* only when the length test holds.
skipPrefix(msg) ==
    IF Len(msg) >= 15
    THEN LET sl == sliceTo(msg, 15) IN
         [panic |-> sl.panic, skip |-> sl.str = "Container image"]
    ELSE [panic |-> FALSE, skip |-> FALSE]

\* The type assertion of obj to a pointer to v1.Event.
isEvent(o) == o.type = "*v1.Event"

\* The first test with its three comparisons joined by && in the place of ||.
wantedAny(event) ==
    ~(/\ event.Source.Component # "kubelet"
      /\ event.InvolvedObject.Kind # "Pod"
      /\ event.Reason # "Pulled")

\* The first test of the handler on an event: an event that fails it is
\* dropped without a log line.
wanted(event) ==
    ~(\/ event.Source.Component # "kubelet"
      \/ event.InvolvedObject.Kind # "Pod"
      \/ event.Reason # "Pulled")

\* commonAttributes, with exported.pod.prefix appended when the pattern
\* matches the pod name.
commonAttributes(event, imageName, imageSizeInt) ==
    LET base == ("observed.timestamp" :> event.LastTimestamp)
             @@ ("exported.namespace" :> event.Namespace)
             @@ ("exported.pod.name" :> event.InvolvedObject.Name)
             @@ ("exported.container.name" :> event.InvolvedObject.Name)
             @@ ("exported.pod.image" :> imageName)
             @@ ("exported.pod.image.size" :> imageSizeInt)
             @@ ("exported.host" :> event.Source.Host)
        matches == FindStringSubmatch(event.InvolvedObject.Name)
    IN  IF Len(matches) > 1
        THEN base @@ ("exported.pod.prefix" :> matches[2])
        ELSE base

\* What one call does when nothing is to be recorded.
Dropped(lines) == [panic |-> FALSE, log |-> lines, records |-> <<>>]

\* The Record calls were a negative wait-only duration left out.
recordsNonNegative(imageSizeInt, durationPull, durationWithWait, attrs) ==
    Only({<<[instrument |-> "imageSizeGauge", value |-> imageSizeInt, attrs |-> a],
            [instrument |-> "durationPullHistogram",
             value |-> Milliseconds(durationPull), attrs |-> a]>>
          \o (IF w < 0 THEN <<>>
              ELSE <<[instrument |-> "durationPullWaitOnlyHistogram",
                      value |-> w, attrs |-> a]>>)
          : a \in {attrs}, w \in {Milliseconds(DurationSub(durationWithWait, durationPull))}})

\* The three Record calls of lines 206-208, in their order.
records(imageSizeInt, durationPull, durationWithWait, attrs) ==
    Only({<<[instrument |-> "imageSizeGauge", value |-> imageSizeInt, attrs |-> a],
            [instrument |-> "durationPullHistogram",
             value |-> Milliseconds(durationPull), attrs |-> a],
            [instrument |-> "durationPullWaitOnlyHistogram",
             value |-> Milliseconds(DurationSub(durationWithWait, durationPull)),
             attrs |-> a]>> : a \in {attrs}})

\* The body of handleAddFunc after the filters: the scan of the message,
\* the three conversions, the attributes and the three Record calls.
parseAndRecord(event) ==
    LET msg == event.Message
        added == <<"Pod event added: ", msg>>
    IN  Only({
        IF ~(sc.err = "" /\ sc.n = 4)
        THEN Dropped(<<added, <<"Failed to parse event message:", sc.err>>>>)
        ELSE Only({
            IF durationPull.err # ""
            THEN Dropped(<<added, <<"Failed to parse durationPull:", durationPull.err>>>>)
            ELSE IF durationWithWait.err # ""
            THEN Dropped(<<added, <<"Failed to parse durationWait:", durationWithWait.err>>>>)
            ELSE IF imageSizeInt.err # ""
            THEN Dropped(<<added, <<"Failed to parse imageSize:", imageSizeInt.err>>>>)
            ELSE
            [panic |-> FALSE,
             log |-> <<added,
                       <<"Recorded metrics:", durationPull.d,
                         DurationSub(durationWithWait.d, durationPull.d),
                         imageSizeInt.val>>>>,
             records |-> records(imageSizeInt.val, durationPull.d, durationWithWait.d,
                                 commonAttributes(event, sc.a[1], imageSizeInt.val))]
            : durationPull \in {ParseDuration(sc.a[2])},
              durationWithWait \in {ParseDuration(sc.a[3])},
              imageSizeInt \in {ParseInt(sc.a[4])}})
        : sc \in {Sscanf(msg, format)}})

\* One call of handleAddFunc on payload o: whether it panics, what it logs,
\* and whether and what it records.
Handle(o) ==
    IF ~isEvent(o) THEN Dropped(<<>>)
    ELSE IF ~wanted(o) THEN Dropped(<<>>)
    ELSE LET sp == skipPrefix(o.Message) IN
         IF sp.panic THEN [Dropped(<<>>) EXCEPT !.panic = TRUE]
         ELSE IF sp.skip THEN Dropped(<<<<"Skipping event message:", o.Message>>>>)
         ELSE parseAndRecord(o)

----------------------------------------------------------------------------
(* The payloads the informer delivers in the model.                        *)

\* A kubelet message of the scanned form, from its five variable parts.
PullMessage(ref, d1, d2, size, tail) ==
    "Successfully pulled image " \o ref \o " in " \o d1 \o " (" \o d2
        \o " including waiting). Image size: " \o size \o tail

Ref == "\"repo/example:99cd3b4\""

\* The example of the handler's comment, and one with waiting time.
MsgExample == PullMessage(Ref, "1m44.643s", "1m44.643s", "1169083618", " bytes.")
MsgWaited == PullMessage(Ref, "15s", "45s", "500", " bytes.")

MsgPresent == "Container image \"repo/example:99cd3b4\" already present on machine"

\* Duration tokens: what Duration.String() prints, and tokens it never prints.
DurationTokens ==
    {"15s", "45s", "1m44.643s", "1h2m3.004s", "350ms", "1.5ms", "2.4ms", "0",
     "1500us", "999ns", ".5s", "-5s", "+5s", "1s1m", "2s2s",
     "15", "15sec", "abc", ".s", "1d", "5s-", "-"}

SizeTokens ==
    {"500", "1169083618", "0", "007", "-5", "+5", "abc", "5a", "12.5", "1_000",
     "9223372036854775808", "-9223372036854775809"}

RefTokens ==
    {Ref, "\"\"", "\"a\\\"b\"", "repo/example:99cd3b4", "'repo/example'",
     "\"repo/example", "\"bad\\qescape\""}

TailTokens ==
    {" bytes.", " bytes", " bytes. Extra text", " bytes.Extra", " bytes!",
     "   bytes.", "bytes.", " byte."}

\* Pairs of a pull duration and a total duration: each token as the one
\* and as the other, and some pairs of two unusual tokens.
DurationPairs ==
    {<<d, "45s">> : d \in DurationTokens} \cup {<<"15s", d>> : d \in DurationTokens}
    \cup {<<"45s", "15s">>, <<"1.5ms", "2.4ms">>, <<"2.4ms", "1.5ms">>, <<"-5s", "1s1m">>,
          <<"abc", "1d">>, <<"1h2m3.004s", "350ms">>, <<"1m44.643s", "1m44.643s">>}

DurationMessages == {PullMessage(Ref, p[1], p[2], "500", " bytes.") : p \in DurationPairs}

SizeMessages == {PullMessage(Ref, "15s", "45s", z, " bytes.") : z \in SizeTokens}

RefMessages == {PullMessage(r, "15s", "45s", "500", " bytes.") : r \in RefTokens}

TailMessages == {PullMessage(Ref, "15s", "45s", "500", t) : t \in TailTokens}

\* Every message that is m cut short.
Truncations(m) == {SubSeq(m, 1, k) : k \in 0..(Len(m) - 1)}

\* Messages with other spacing, and of another shape.
MsgWide ==
    "Successfully  pulled   image \"repo/example:99cd3b4\"  in 15s  (45s  including  waiting).  Image  size:  500  bytes."
MsgTab ==
    "Successfully pulled image \"repo/example:99cd3b4\" in 15s (45s including waiting). Image size:\t500 bytes."

OtherMessages ==
    {MsgPresent,
     "Container image",
     "Container imag",
     "container image \"repo/example:99cd3b4\" already present on machine",
     MsgWide,
     MsgTab,
     "Successfully pulled image\"repo/example:99cd3b4\" in 15s (45s including waiting). Image size: 500 bytes.",
     "Successfully pulled image \"repo/example:99cd3b4\"in 15s (45s including waiting). Image size: 500 bytes.",
     "Successfully pulled image \"repo/example:99cd3b4\" in 15s(45s including waiting). Image size: 500 bytes.",
     "Successfully pulled image \"repo/example:99cd3b4\" in 15s (45s including waiting). Image size:500 bytes.",
     "Successfullypulled image \"repo/example:99cd3b4\" in 15s (45s including waiting). Image size: 500 bytes.",
     " Successfully pulled image \"repo/example:99cd3b4\" in 15s (45s including waiting). Image size: 500 bytes.",
     "Successfully pulled image \"repo/example:99cd3b4\" in 15s (45s including waiting).\nImage size: 500 bytes.",
     "Pulling image \"repo/example:99cd3b4\""}

Messages ==
    {MsgExample} \cup DurationMessages \cup SizeMessages \cup RefMessages
    \cup TailMessages \cup Truncations(MsgWaited)
    \cup {SubSeq(MsgExample, 1, Len(MsgExample) - 1)}
    \cup OtherMessages

PodName == "k8s-image-pull-metrics-5f588dd8cf-8lnm4"

PodNames == {PodName, "single", "a-b", "a-b-c", "web-0", "--", "a--b", "-a-b", ""}

\* A delivered *v1.Event.
Event(component, kind, reason, message, name) ==
    [type |-> "*v1.Event",
     Source |-> [Component |-> component, Host |-> "node-1"],
     InvolvedObject |-> [Kind |-> kind, Name |-> name],
     Reason |-> reason,
     Message |-> message,
     Namespace |-> "default",
     LastTimestamp |-> 1500]

\* An event that passes the three comparisons of the filter.
Pulled(message, name) == Event("kubelet", "Pod", "Pulled", message, name)

\* Events that differ in the fields the filter reads.
FilterEvents ==
    {Event(c, k, r, m, PodName) :
        c \in {"kubelet", "kube-scheduler", ""}, k \in {"Pod", "Node"},
        r \in {"Pulled", "Pulling", "pulled"},
        m \in {MsgWaited, MsgPresent}}

\* Payloads that are no *v1.Event.
NotEvents == {[type |-> "*v1.Pod"], [type |-> "cache.DeletedFinalStateUnknown"]}

\* The payloads of SpecScan.
ScanPayloads ==
    NotEvents
    \cup FilterEvents
    \cup {Pulled(m, PodName) : m \in Messages}
    \cup {Pulled(MsgWaited, n) : n \in PodNames}

\* The payloads of Spec: some of each outcome of the handler.
Payloads ==
    {[type |-> "*v1.Pod"],
     Event("kube-scheduler", "Pod", "Pulled", MsgWaited, PodName),
     Event("kubelet", "Node", "Pulled", MsgWaited, PodName),
     Event("kubelet", "Pod", "Pulling", MsgWaited, PodName),
     Pulled(MsgPresent, PodName),
     Pulled("", PodName),
     Pulled("Container imag", PodName),
     Pulled(PullMessage(Ref, "15s", "45s", "500", " bytes"), PodName),
     Pulled(PullMessage(Ref, "15", "45s", "500", " bytes."), PodName),
     Pulled(PullMessage(Ref, "15s", "abc", "500", " bytes."), PodName),
     Pulled(PullMessage(Ref, "15s", "45s", "5a", " bytes."), PodName),
     Pulled(PullMessage(Ref, "15s", "45s", "9223372036854775808", " bytes."), PodName),
     Pulled(MsgExample, PodName),
     Pulled(MsgWaited, PodName),
     Pulled(MsgWaited, "a-b"),
     Pulled(PullMessage(Ref, "45s", "15s", "500", " bytes."), PodName),
     Pulled(PullMessage(Ref, "-5s", "45s", "-5", " bytes."), "single"),
     Pulled(PullMessage(Ref, "15s", "45s", "500", " bytes. Extra text"), "a-b-c")}

\* The payloads of SpecConc: three that record and two that do not.
ConcPayloads ==
    {Event("kubelet", "Pod", "Pulling", MsgWaited, PodName),
     Pulled(PullMessage(Ref, "15", "45s", "500", " bytes."), PodName),
     Pulled(MsgWaited, PodName),
     Pulled(MsgExample, "a-b"),
     Pulled(PullMessage(Ref, "45s", "15s", "500", " bytes."), PodName)}

\* handleAddFunc on each payload of the model.
Handled == [o \in ScanPayloads \cup Payloads \cup ConcPayloads |-> Handle(o)]

----------------------------------------------------------------------------
(* The state machine.                                                      *)

Goroutines == 1..NumGoroutines

\* No call yet.
NoCall == [type |-> "nil"]

Idle == [pc |-> "idle", obj |-> NoCall]

\* instrument.Record(ctx, value, metric.WithAttributes(attrs...)), for the
\* Record calls of rs that are calls on the instrument of this name.
Record(instrument, name, rs) ==
    LET mine == {i \in 1..Len(rs) : rs[i].instrument = name} IN
    instrument (+) SetToBag({[value |-> rs[i].value, attrs |-> rs[i].attrs] : i \in mine})

\* The package variables before main() runs: the handles are nil, and no
\* informer delivers anything.
Init ==
    /\ started = FALSE
    /\ process = "running"
    /\ obj = NoCall
    /\ log = <<>>
    /\ recorded = <<>>
    /\ imageSizeGauge = EmptyBag
    /\ durationPullHistogram = EmptyBag
    /\ durationPullWaitOnlyHistogram = EmptyBag
    /\ delivered = EmptyBag
    /\ calls = [g \in Goroutines |-> Idle]

\* main(): creates the three instruments, registers handleAddFunc and
\* starts the informer.
Main ==
    /\ ~started
    /\ started' = TRUE
    /\ UNCHANGED <<process, obj, log, recorded, imageSizeGauge, durationPullHistogram,
                   durationPullWaitOnlyHistogram, delivered, calls>>

\* The informer may deliver one more payload, of at most max.
CanDeliver(max) ==
    /\ started
    /\ process = "running"
    /\ BagCardinality(delivered) < max

\* handleAddFunc(o), run from its first line to its return (the informer
\* calls its handler for one notification after the other), in a behaviour
\* of at most max calls.
Deliver(o, max) ==
    /\ CanDeliver(max)
    /\ LET h == Handled[o] IN
       /\ obj' = o
       /\ log' = h.log
       /\ recorded' = h.records
       /\ delivered' = delivered (+) SetToBag({o})
       /\ process' = IF h.panic THEN "panicked" ELSE process
       /\ imageSizeGauge' = Record(imageSizeGauge, "imageSizeGauge", h.records)
       /\ durationPullHistogram' =
              Record(durationPullHistogram, "durationPullHistogram", h.records)
       /\ durationPullWaitOnlyHistogram' =
              Record(durationPullWaitOnlyHistogram, "durationPullWaitOnlyHistogram",
                     h.records)
    /\ UNCHANGED <<started, calls>>

handleAddFunc(o) == Deliver(o, MaxEvents)

Next ==
    \/ Main
    \/ \E o \in Payloads : handleAddFunc(o)

Spec == Init /\ [][Next]_vars

\* One call of the handler on a payload of the large set.
handleAddFuncScan(o) == Deliver(o, MaxScans)

NextScan ==
    \/ Main
    \/ \E o \in ScanPayloads : handleAddFuncScan(o)

SpecScan == Init /\ [][NextScan]_vars

----------------------------------------------------------------------------
(* Overlapping calls: handleAddFunc run by several goroutines, one step    *)
(* for the lines up to the first Record and one for each Record.           *)

\* The event of a call were it kept in a package variable that every call
\* with something to record sets.
callObjShared(g) == IF Handled[obj].records # <<>> THEN obj ELSE calls[g].obj

\* The event a call works on (its parameter obj and its local event).
callObj(g) == calls[g].obj

\* The i-th Record call of goroutine g's call, as a sequence of one.
callRecord(g, i) == <<Handled[callObj(g)].records[i]>>

\* Lines 147-204 of a call by goroutine g: the filters, the scan, the
\* conversions and the attributes.  A call with nothing to record returns.
Call(g, o) ==
    /\ CanDeliver(MaxEvents)
    /\ calls[g].pc = "idle"
    /\ LET h == Handled[o] IN
       /\ obj' = o
       /\ log' = IF h.records # <<>> THEN <<h.log[1]>> ELSE h.log
       /\ delivered' = delivered (+) SetToBag({o})
       /\ process' = IF h.panic THEN "panicked" ELSE process
       /\ calls' = [calls EXCEPT ![g] =
                       IF h.records # <<>> THEN [pc |-> "gauge", obj |-> o] ELSE Idle]
    /\ recorded' = <<>>
    /\ UNCHANGED <<started, imageSizeGauge, durationPullHistogram,
                   durationPullWaitOnlyHistogram>>

\* Line 206.
RecordGauge(g) ==
    /\ process = "running"
    /\ calls[g].pc = "gauge"
    /\ imageSizeGauge' = Record(imageSizeGauge, "imageSizeGauge", callRecord(g, 1))
    /\ calls' = [calls EXCEPT ![g].pc = "pull"]
    /\ log' = <<>>
    /\ recorded' = callRecord(g, 1)
    /\ UNCHANGED <<started, process, obj, durationPullHistogram,
                   durationPullWaitOnlyHistogram, delivered>>

\* Line 207.
RecordPull(g) ==
    /\ process = "running"
    /\ calls[g].pc = "pull"
    /\ durationPullHistogram' =
           Record(durationPullHistogram, "durationPullHistogram", callRecord(g, 2))
    /\ calls' = [calls EXCEPT ![g].pc = "wait"]
    /\ log' = <<>>
    /\ recorded' = callRecord(g, 2)
    /\ UNCHANGED <<started, process, obj, imageSizeGauge,
                   durationPullWaitOnlyHistogram, delivered>>

\* Lines 208-216: the third Record, the log line and the return.
RecordWait(g) ==
    /\ process = "running"
    /\ calls[g].pc = "wait"
    /\ durationPullWaitOnlyHistogram' =
           Record(durationPullWaitOnlyHistogram, "durationPullWaitOnlyHistogram",
                  callRecord(g, 3))
    /\ calls' = [calls EXCEPT ![g] = Idle]
    /\ log' = <<Handled[callObj(g)].log[2]>>
    /\ recorded' = callRecord(g, 3)
    /\ UNCHANGED <<started, process, obj, imageSizeGauge, durationPullHistogram,
                   delivered>>

NextConc ==
    \/ Main
    \/ \E g \in Goroutines, o \in ConcPayloads : Call(g, o)
    \/ \E g \in Goroutines : RecordGauge(g)
    \/ \E g \in Goroutines : RecordPull(g)
    \/ \E g \in Goroutines : RecordWait(g)

SpecConc == Init /\ [][NextConc]_vars

----------------------------------------------------------------------------
(* What a state shows of the latest call of handleAddFunc.                 *)

\* handleAddFunc has been called.
Called == obj # NoCall

\* The call went on to the scan of the message (line 163 and after).
ParseAttempted == log # <<>> /\ log[1][1] = "Pod event added: "

\* The call logged a failure of the scan or of a conversion.
ParseFailed ==
    \E i \in 1..Len(log) :
        log[i][1] \in {"Failed to parse event message:", "Failed to parse durationPull:",
                       "Failed to parse durationWait:", "Failed to parse imageSize:"}

\* The values of Record calls rs, in their order.
Values(rs) == [i \in 1..Len(rs) |-> rs[i].value]

\* The attribute set of the Record calls of the latest call.
Attrs == recorded[1].attrs

----------------------------------------------------------------------------
(* C1: the filter.                                                         *)

HasPrefixContainerImage(m) == Len(m) >= 15 /\ SubSeq(m, 1, 15) = "Container image"

\* The four conditions of the filter, on payload o.
PassesFilter(o) ==
    /\ o.type = "*v1.Event"
    /\ o.Source.Component = "kubelet"
    /\ o.InvolvedObject.Kind = "Pod"
    /\ o.Reason = "Pulled"
    /\ ~HasPrefixContainerImage(o.Message)

\* C1: a call goes on to the scan of the message exactly when the payload
\* is an event from the kubelet, about a Pod, with reason Pulled, whose
\* message does not begin with "Container image"; when one of the four
\* fails, the call neither scans nor records.
C1_FilterDecides ==
    Called =>
        /\ ParseAttempted <=> PassesFilter(obj)
        /\ ~PassesFilter(obj) => recorded = <<>> /\ ~ParseFailed

\* An event that differs from a recorded one in its component only was
\* dropped without a scan.
C1_Witness ==
    /\ obj = Event("kube-scheduler", "Pod", "Pulled", MsgWaited, PodName)
    /\ log = <<>>
    /\ recorded = <<>>

----------------------------------------------------------------------------
(* C2: the three instruments are recorded together.                        *)

\* C2: the three instruments hold the same number of observations; a call
\* makes either no Record call or one on each instrument, and none when
\* the scan or a conversion failed.
C2_AllOrNone ==
    /\ BagCardinality(imageSizeGauge) = BagCardinality(durationPullHistogram)
    /\ BagCardinality(durationPullHistogram) = BagCardinality(durationPullWaitOnlyHistogram)
    /\ Len(recorded) \in {0, 3}
    /\ Len(recorded) = 3 =>
           <<recorded[1].instrument, recorded[2].instrument, recorded[3].instrument>>
               = <<"imageSizeGauge", "durationPullHistogram", "durationPullWaitOnlyHistogram">>
    /\ ParseFailed => recorded = <<>>

\* After two recorded events, one whose second duration does not convert.
C2_Witness ==
    /\ obj = Pulled(PullMessage(Ref, "15s", "abc", "500", " bytes."), PodName)
    /\ ParseFailed
    /\ recorded = <<>>
    /\ BagCardinality(imageSizeGauge) = 2
    /\ BagCardinality(durationPullWaitOnlyHistogram) = 2

----------------------------------------------------------------------------
(* C3: the recorded values.                                                *)

\* What each duration token that converts is worth, in whole milliseconds
\* and the nanoseconds left.
TokenValue ==
    ("15s" :> [ms |-> 15000, ns |-> 0]) @@ ("45s" :> [ms |-> 45000, ns |-> 0])
    @@ ("1m44.643s" :> [ms |-> 104643, ns |-> 0])
    @@ ("1h2m3.004s" :> [ms |-> 3723004, ns |-> 0])
    @@ ("350ms" :> [ms |-> 350, ns |-> 0]) @@ ("1.5ms" :> [ms |-> 1, ns |-> 500000])
    @@ ("2.4ms" :> [ms |-> 2, ns |-> 400000]) @@ ("0" :> [ms |-> 0, ns |-> 0])
    @@ ("1500us" :> [ms |-> 1, ns |-> 500000]) @@ ("999ns" :> [ms |-> 0, ns |-> 999])
    @@ (".5s" :> [ms |-> 500, ns |-> 0]) @@ ("-5s" :> [ms |-> -5000, ns |-> 0])
    @@ ("+5s" :> [ms |-> 5000, ns |-> 0]) @@ ("1s1m" :> [ms |-> 61000, ns |-> 0])
    @@ ("2s2s" :> [ms |-> 4000, ns |-> 0])

\* What each size token that converts is worth.
SizeValue ==
    ("500" :> 500) @@ ("1169083618" :> 1169083618) @@ ("0" :> 0) @@ ("007" :> 7)
    @@ ("+5" :> 5) @@ ("-5" :> -5)

\* total - pull in whole milliseconds, cut toward zero.
WaitOnlyMs(pull, total) ==
    LET whole == total.ms - pull.ms
        part == total.ns - pull.ns
    IN  IF whole > 0 /\ part < 0 THEN whole - 1
        ELSE IF whole < 0 /\ part > 0 THEN whole + 1
        ELSE whole

----------------------------------------------------------------------------
(* C4: which messages the scan takes.                                      *)

\* Messages of the model that are exactly of the form
\* Successfully pulled image "<ref>" in <dur> (<dur> including waiting). Image size: <int> bytes.
ExactForm ==
    {MsgExample} \cup DurationMessages \cup SizeMessages
    \cup {PullMessage(r, "15s", "45s", "500", " bytes.") : r \in {Ref, "\"\"", "\"a\\\"b\""}}

\* Messages that are MsgWaited with wider spacing or with text after its
\* final period.
LooseForm ==
    {MsgWide, MsgTab,
     PullMessage(Ref, "15s", "45s", "500", " bytes. Extra text"),
     PullMessage(Ref, "15s", "45s", "500", " bytes.Extra"),
     PullMessage(Ref, "15s", "45s", "500", "   bytes.")}

\* Messages that are empty, cut short, wrongly quoted, with a size that is
\* no integer, with another ending, without one of the spaces, with a
\* space in front, with a newline, or of another shape.
Malformed ==
    Truncations(MsgWaited) \cup {SubSeq(MsgExample, 1, Len(MsgExample) - 1)}
    \cup {PullMessage(r, "15s", "45s", "500", " bytes.") :
             r \in {"repo/example:99cd3b4", "'repo/example'", "\"repo/example",
                    "\"bad\\qescape\""}}
    \cup {PullMessage(Ref, "15s", "45s", z, " bytes.") : z \in {"abc", "5a", "12.5", "1_000"}}
    \cup {PullMessage(Ref, "15s", "45s", "500", t) : t \in {" bytes", " bytes!", "bytes.", " byte."}}
    \cup (OtherMessages \ {MsgPresent, "Container image", MsgWide, MsgTab})

\* The claim as stated: a message that is not exactly of the form is never
\* recorded.
C4_Original ==
    (Called /\ PassesFilter(obj) /\ obj.Message \notin ExactForm) => recorded = <<>>

\* C4 (amended): the scan is anchored at the start of the message only.  A
\* malformed message fails and nothing is recorded; a message with wider
\* spacing or with text after the final period is recorded like the
\* message of the exact form.
C4_AnchoredAtStart ==
    /\ \A m \in Malformed :
           obj = Pulled(m, PodName) => recorded = <<>> /\ ParseFailed
    /\ \A m \in LooseForm :
           obj = Pulled(m, PodName) =>
               /\ Values(recorded) = <<500, 15000, 30000>>
               /\ Attrs["exported.pod.image"] = "repo/example:99cd3b4"
               /\ ~ParseFailed

\* A message with text after its final period was recorded.
C4_Witness ==
    /\ obj = Pulled(PullMessage(Ref, "15s", "45s", "500", " bytes. Extra text"), PodName)
    /\ Values(recorded) = <<500, 15000, 30000>>

----------------------------------------------------------------------------
(* C5: the size token.                                                     *)

\* The claim as stated: a size with a '-' sign or beyond 64 bits is not
\* recorded, and no recorded size is negative.
C5_Original ==
    /\ \A z \in {"-5", "9223372036854775808", "-9223372036854775809"} :
           obj = Pulled(PullMessage(Ref, "15s", "45s", z, " bytes."), PodName) =>
               recorded = <<>>
    /\ \A r \in BagToSet(imageSizeGauge) :
           r.value >= 0 /\ r.attrs["exported.pod.image.size"] >= 0

\* C5 (amended): the size token is a base-10 integer of 64 bits with an
\* optional sign.  A token that is no such integer, or is beyond 64 bits,
\* fails with nothing recorded; a token with a '-' sign is recorded, as a
\* negative gauge value and a negative exported.pod.image.size.
C5_SignedSize ==
    \A z \in SizeTokens :
        obj = Pulled(PullMessage(Ref, "15s", "45s", z, " bytes."), PodName) =>
            IF z \in DOMAIN SizeValue
            THEN /\ Len(recorded) = 3
                 /\ recorded[1].value = SizeValue[z]
                 /\ Attrs["exported.pod.image.size"] = SizeValue[z]
            ELSE /\ recorded = <<>>
                 /\ log[2][1] = "Failed to parse imageSize:"
                 /\ z \in {"9223372036854775808", "-9223372036854775809"} =>
                        log[2][2] = "value out of range"

\* A size of -5 was recorded.
C5_Witness ==
    /\ obj = Pulled(PullMessage(Ref, "15s", "45s", "-5", " bytes."), PodName)
    /\ recorded[1].value = -5
    /\ Attrs["exported.pod.image.size"] = -5

----------------------------------------------------------------------------
(* C6: exported.pod.prefix.                                                *)

\* The places of the dashes of a pod name.
Dashes(n) == {i \in 1..Len(n) : SubSeq(n, i, i) = "-"}

\* n without its last two dash-separated segments and their dashes.
Stripped(n) ==
    LET last == CHOOSE i \in Dashes(n) : \A j \in Dashes(n) : j <= i
        rest == Dashes(n) \ {last}
        before == CHOOSE i \in rest : \A j \in rest : j <= i
    IN  SubSeq(n, 1, before - 1)

\* C6: a recorded event has the attribute exported.pod.prefix exactly when
\* its pod name has two dashes or more, and its value is then the pod
\* name without its last two segments; the three Record calls carry the
\* same attributes.
C6_PodPrefix ==
    /\ \A n \in PodNames : obj = Pulled(MsgWaited, n) => Len(recorded) = 3
    /\ recorded # <<>> =>
           LET n == obj.InvolvedObject.Name IN
           /\ "exported.pod.prefix" \in DOMAIN Attrs <=> Cardinality(Dashes(n)) >= 2
           /\ Cardinality(Dashes(n)) >= 2 => Attrs["exported.pod.prefix"] = Stripped(n)
           /\ n = PodName => Attrs["exported.pod.prefix"] = "k8s-image-pull-metrics"
           /\ n \in {"single", "a-b"} =>
                  DOMAIN Attrs = {"observed.timestamp", "exported.namespace",
                                  "exported.pod.name", "exported.container.name",
                                  "exported.pod.image", "exported.pod.image.size",
                                  "exported.host"}
           /\ \A i \in 1..Len(recorded) : recorded[i].attrs = Attrs

\* An event of pod a-b was recorded without the attribute.
C6_Witness ==
    /\ obj = Pulled(MsgWaited, "a-b")
    /\ Len(recorded) = 3
    /\ "exported.pod.prefix" \notin DOMAIN Attrs

----------------------------------------------------------------------------
(* What the instruments hold after the delivered payloads.                 *)

\* The k-th observation of payload o handled alone.
Obs(o, k) == [value |-> Handled[o].records[k].value, attrs |-> Handled[o].records[k].attrs]

\* How often the payloads of S were delivered.
RECURSIVE DeliveredIn(_)
DeliveredIn(S) ==
    IF S = {} THEN 0
    ELSE LET o == CHOOSE x \in S : TRUE
         IN  CopiesIn(o, delivered) + DeliveredIn(S \ {o})

\* The bag of the k-th observations of the delivered payloads that are in
\* good, each as often as its payload was delivered.
ExpectedBag(good, k) ==
    LET got == BagToSet(delivered) \cap good
        obs == {Obs(o, k) : o \in got}
    IN  [r \in obs |-> DeliveredIn({o \in got : Obs(o, k) = r})]

----------------------------------------------------------------------------
(* C7: a failing event stops nothing.                                      *)

\* The payloads of Spec that are events of the kubelet with a message the
\* scan and the conversions take.
WellFormed ==
    {Pulled(MsgExample, PodName),
     Pulled(MsgWaited, PodName),
     Pulled(MsgWaited, "a-b"),
     Pulled(PullMessage(Ref, "45s", "15s", "500", " bytes."), PodName),
     Pulled(PullMessage(Ref, "-5s", "45s", "-5", " bytes."), "single"),
     Pulled(PullMessage(Ref, "15s", "45s", "500", " bytes. Extra text"), "a-b-c")}

\* C7: whatever was delivered, the process runs on (no call panics), the
\* latest call recorded exactly when its payload is well-formed, and each
\* instrument holds the observations of the well-formed payloads
\* delivered, as if the others had never been delivered.
C7_IngestionGoesOn ==
    /\ process = "running"
    /\ Called => (Len(recorded) = 3 <=> obj \in WellFormed)
    /\ Called => (recorded = <<>> <=> obj \notin WellFormed)
    /\ imageSizeGauge = ExpectedBag(WellFormed, 1)
    /\ durationPullHistogram = ExpectedBag(WellFormed, 2)
    /\ durationPullWaitOnlyHistogram = ExpectedBag(WellFormed, 3)

\* After an event with an empty message and one whose duration does not
\* convert, a well-formed event was recorded.
C7_Witness ==
    /\ CopiesIn(Pulled("", PodName), delivered) = 1
    /\ CopiesIn(Pulled(PullMessage(Ref, "15s", "abc", "500", " bytes."), PodName), delivered) = 1
    /\ obj = Pulled(MsgWaited, PodName)
    /\ Values(recorded) = <<500, 15000, 30000>>
    /\ BagCardinality(imageSizeGauge) = 1
    /\ process = "running"

----------------------------------------------------------------------------
(* C8: the duration tokens.                                                *)

\* Tokens outside the grammar of the claim: another unit, a sign, a unit
\* twice, units out of order.
OutsideGrammar == {"1500us", "999ns", "-5s", "+5s", "1s1m", "2s2s"}

\* The claim as stated: a duration token outside the grammar drops the
\* event, and no recorded pull duration is negative.
C8_Original ==
    /\ \A p \in DurationPairs :
           (/\ p[1] \in OutsideGrammar \/ p[2] \in OutsideGrammar
            /\ obj = Pulled(PullMessage(Ref, p[1], p[2], "500", " bytes."), PodName))
               => recorded = <<>>
    /\ recorded # <<>> => recorded[2].value >= 0

\* C8 (amended): a duration token is an optional sign and then 0 or pairs
\* of a decimal number and a unit among ns, us, ms, s, m and h, in any
\* order and with repeats, the pairs added up.  A token of that grammar
\* is recorded; a token without a unit, with another unit or without
\* digits drops the event at the first such token.
C8_GoDurations ==
    \A p \in DurationPairs :
        obj = Pulled(PullMessage(Ref, p[1], p[2], "500", " bytes."), PodName) =>
            IF p[1] \notin DOMAIN TokenValue
            THEN recorded = <<>> /\ log[2][1] = "Failed to parse durationPull:"
            ELSE IF p[2] \notin DOMAIN TokenValue
            THEN recorded = <<>> /\ log[2][1] = "Failed to parse durationWait:"
            ELSE Len(recorded) = 3 /\ recorded[2].value = TokenValue[p[1]].ms

\* A pull duration of -5s was recorded, with a total of 1s1m.
C8_Witness ==
    /\ obj = Pulled(PullMessage(Ref, "-5s", "1s1m", "500", " bytes."), PodName)
    /\ Values(recorded) = <<500, -5000, 66000>>

----------------------------------------------------------------------------
(* C9: the final period.                                                   *)

\* MsgWaited without its final period.
MsgNoPeriod == PullMessage(Ref, "15s", "45s", "500", " bytes")

\* The claim as stated: the message without the final period is recorded
\* like the message with it.
C9_Original ==
    obj = Pulled(MsgNoPeriod, PodName) =>
        recorded = Handled[Pulled(MsgWaited, PodName)].records

\* C9 (amended): the final period is required.  The message without it
\* fails the scan with "unexpected EOF" and nothing is recorded; the
\* message with it is recorded.
C9_PeriodRequired ==
    /\ \A m \in {MsgWaited, MsgExample} :
           /\ obj = Pulled(SubSeq(m, 1, Len(m) - 1), PodName) =>
                  /\ recorded = <<>>
                  /\ log[2] = <<"Failed to parse event message:", "unexpected EOF">>
           /\ obj = Pulled(m, PodName) => Len(recorded) = 3 /\ ~ParseFailed
    /\ MsgNoPeriod = SubSeq(MsgWaited, 1, Len(MsgWaited) - 1)

\* The message without its final period failed the scan.
C9_Witness ==
    /\ obj = Pulled(MsgNoPeriod, PodName)
    /\ recorded = <<>>
    /\ ParseFailed

----------------------------------------------------------------------------
(* C10: overlapping calls.                                                 *)

\* The payloads of SpecConc that are recorded.
ConcRecording ==
    {Pulled(MsgWaited, PodName),
     Pulled(MsgExample, "a-b"),
     Pulled(PullMessage(Ref, "45s", "15s", "500", " bytes."), PodName)}

\* The program counters at which the k-th Record of a call is yet to come.
Before(k) == CASE k = 1 -> {"gauge"} [] k = 2 -> {"gauge", "pull"}
               [] k = 3 -> {"gauge", "pull", "wait"}

\* The bag of the k-th observations the calls of goroutines G have yet to
\* record.
RECURSIVE PendingBag(_, _)
PendingBag(G, k) ==
    IF G = {} THEN EmptyBag
    ELSE LET g == CHOOSE x \in G : TRUE
         IN  (IF calls[g].pc \in Before(k)
              THEN SetToBag({Obs(calls[g].obj, k)}) ELSE EmptyBag)
             (+) PendingBag(G \ {g}, k)

\* C10: nothing is delivered before main() has set the handles, and under
\* every interleaving of the calls each instrument holds, with what the
\* calls in flight have yet to record, the observations of the recorded
\* payloads handled one at a time, each as often as it was delivered.
C10_Interleavings ==
    /\ ~started => delivered = EmptyBag /\ \A g \in Goroutines : calls[g] = Idle
    /\ \A g \in Goroutines : calls[g].pc # "idle" => calls[g].obj \in ConcRecording
    /\ imageSizeGauge (+) PendingBag(Goroutines, 1) = ExpectedBag(ConcRecording, 1)
    /\ durationPullHistogram (+) PendingBag(Goroutines, 2) = ExpectedBag(ConcRecording, 2)
    /\ durationPullWaitOnlyHistogram (+) PendingBag(Goroutines, 3)
           = ExpectedBag(ConcRecording, 3)

\* Two calls on different events are in flight, one before its third
\* Record and one before its second.
C10_Witness ==
    /\ calls[1].pc = "wait"
    /\ calls[2].pc = "pull"
    /\ calls[1].obj # calls[2].obj
    /\ BagCardinality(imageSizeGauge) = 2
    /\ BagCardinality(durationPullWaitOnlyHistogram) = 0

====
